---- MODULE Spec2Model ----
(***************************************************************************)
(* A model of Smtp::Client (src/src/Client.cpp): the protocol state        *)
(* machine, the ready-or-broken promises, the in-flight send promise and   *)
(* the extension hooks.  The client's private state (Client::Impl) is one  *)
(* record; every method of Impl is an operator from records to records, so *)
(* that nested calls compose the way they do in the code.                  *)
(***************************************************************************)
EXTENDS Integers, Sequences, FiniteSets, TLC

\* ------------------------------------------------------------------ bounds
MaxHandles == 2      \* ready-or-broken promises outstanding at a time
MaxRecipients == 2   \* values of the To header of one mail
MaxQueue == 2        \* length of the queue of recipients
MaxText == 3         \* symbols in the text of a capability line
MaxBody == 4         \* characters of a body handed to ProcessBody
MaxChunk == 2        \* bytes the transport delivers in one callback
MaxBuffer == 4       \* bytes in the reassembly buffer
MaxLine == 5         \* characters of a reply line before its CR LF

\* ------------------------------------------------------------- vocabulary
Stages ==
    {"Greeting", "HelloResponse", "Options", "ReadyToSend", "DeclaringSender",
     "DeclaringRecipients", "SendingData", "AwaitingSendResponse"}

MailStages ==
    {"DeclaringSender", "DeclaringRecipients", "SendingData", "AwaitingSendResponse"}

NoExt == "none"

\* The extension names of the model, in the order std::set< std::string >
\* iterates them.
ExtOrder == <<"BAR", "FOO">>

ExtNames == {ExtOrder[i] : i \in DOMAIN ExtOrder}

\* The stage at which an extension implementation of
\* test/src/ExtensionTests.cpp asks for an extra stage (once).
ClaimStage(kind) ==
    CASE kind = "BarPreMessage" -> "ReadyToSend"
      [] kind = "BarAfterSenderDeclared" -> "DeclaringSender"
      [] OTHER -> "never"

\* The registrations the tests make.
TestExtensions ==
    {<<"FOO", "Foo">>, <<"BAR", "BarPreMessage">>, <<"BAR", "BarAfterSenderDeclared">>}

\* What the active extension does in HandleServerMessage.
ExtOutcomes == {"handled", "completeTrue", "completeFalse", "reject"}

\* What a build does on recipients.front() of an empty queue.
UbOutcomes == {"crash", "garbage"}

\* The bound address of the connections of the tests, 127.0.0.1.
Loopback == 2130706433

\* The To header of a mail with k recipients: recipients are numbered.
ToList(k) == [i \in 1..k |-> i]

Froms == {"none", "f1"}

MainBodies == {<<>>, <<".", "a">>}

\* A line the transport delivers, after reassembly.  ok is what
\* DisassembleMessagesReceived decides about its framing.
\* The text of a reply is a sequence of symbols: a space, or a run of other
\* characters (an extension name, or "x" for anything else).
Space == " "

NoText == <<"x">>

Texts == {NoText, <<"BAR">>, <<"FOO">>, <<"FOO", Space, "x">>}

BadLine == [ok |-> FALSE, code |-> 0, last |-> FALSE, text |-> NoText]

GoodLines ==
    [ok : {TRUE}, code : {250}, last : BOOLEAN, text : Texts]
    \cup [ok : {TRUE}, code : {220, 354, 550}, last : {TRUE}, text : {NoText}]

Lines == GoodLines \cup {BadLine}

\* ------------------------------------------------------------ ProcessBody
RECURSIVE ProcessBodyFrom(_, _, _, _)
ProcessBodyFrom(body, i, first, out) ==
    IF i > Len(body)
    THEN IF first THEN out ELSE out \o <<"CR", "LF">>
    ELSE LET next == body[i] IN
         IF next = "LF"
         THEN ProcessBodyFrom(body, i + 1, TRUE, out \o <<"CR", "LF">>)
         ELSE IF next # "CR"
              THEN ProcessBodyFrom(
                       body, i + 1, FALSE,
                       IF first /\ next = "."
                       THEN out \o <<".", next>>
                       ELSE Append(out, next))
              ELSE ProcessBodyFrom(body, i + 1, first, out)

\* ProcessBody with first set to false at the start.
ProcessBody_FirstUnset(body) == ProcessBodyFrom(body, 1, FALSE, <<>>)

ProcessBody(body) == ProcessBodyFrom(body, 1, TRUE, <<>>)

\* -------------------------------------------------- AssembleLinesReceived
\* std::find(dataReceived.begin(), dataReceived.end(), '\r'), counting from
\* 1; 0 for end().
FindCR(buffer) ==
    IF \E i \in DOMAIN buffer : buffer[i] = "CR"
    THEN CHOOSE i \in DOMAIN buffer :
            buffer[i] = "CR" /\ \A j \in 1..(i - 1) : buffer[j] # "CR"
    ELSE 0

\* The loop of AssembleLinesReceived: the buffer it leaves and the lines it
\* returns.
RECURSIVE ExtractLines(_, _)
ExtractLines(buffer, lines) ==
    LET cr == FindCR(buffer)
    IN IF buffer = <<>> \/ cr = 0 \/ cr = Len(buffer) \/ buffer[cr + 1] # "LF"
       THEN [buffer |-> buffer, lines |-> lines]
       ELSE ExtractLines(SubSeq(buffer, cr + 2, Len(buffer)),
                         Append(lines, SubSeq(buffer, 1, cr + 1)))

AssembleLinesReceived(buffer, data) == ExtractLines(buffer \o data, <<>>)

\* -------------------------------------------- DisassembleMessagesReceived
DecimalDigits == <<"0", "1", "2", "3", "4", "5", "6", "7", "8", "9">>

IsDigit(c) == \E d \in DOMAIN DecimalDigits : DecimalDigits[d] = c

DigitValue(c) == (CHOOSE d \in DOMAIN DecimalDigits : DecimalDigits[d] = c) - 1

\* What isspace() accepts, among the characters of a line.
WhiteSpace == {" ", "CR", "LF"}

RECURSIVE DigitsValue(_, _)
DigitsValue(digits, sofar) ==
    IF digits = <<>>
    THEN sofar
    ELSE DigitsValue(Tail(digits), 10 * sofar + DigitValue(Head(digits)))

\* sscanf(line.c_str(), "%d", &code): white space is skipped, a sign is
\* taken, then as many decimal digits as follow; matched says whether the
\* call returned 1.
Sscanf(line) ==
    LET black == {i \in DOMAIN line : line[i] \notin WhiteSpace}
    IN IF black = {}
       THEN [matched |-> FALSE, code |-> 0]
       ELSE LET at == CHOOSE i \in black : \A j \in black : i <= j
                signed == line[at] \in {"-", "+"}
                from == IF signed THEN at + 1 ELSE at
                stop == {i \in from..(Len(line) + 1) :
                            i = Len(line) + 1 \/ ~IsDigit(line[i])}
                to == (CHOOSE i \in stop : \A j \in stop : i <= j) - 1
                value == DigitsValue(SubSeq(line, from, to), 0)
            IN IF to < from
               THEN [matched |-> FALSE, code |-> 0]
               ELSE [matched |-> TRUE,
                     code |-> IF line[at] = "-" THEN 0 - value ELSE value]

\* line.substr(4, line.length() - 6): the count is unsigned, so below six
\* characters it reaches to the end of the line.
TextOf(line) ==
    IF Len(line) >= 6
    THEN SubSeq(line, 5, Len(line) - 2)
    ELSE SubSeq(line, 5, Len(line))

\* The body of the loop for one line: whether the line was taken, and the
\* message made of it.
DisassembleLine(line) ==
    LET scanned == Sscanf(line)
    IN IF Len(line) < 4 \/ ~scanned.matched
       THEN [ok |-> FALSE]
       ELSE IF line[4] \notin {"-", " "}
            THEN [ok |-> FALSE]
            ELSE [ok |-> TRUE,
                  message |-> [code |-> scanned.code,
                               last |-> line[4] = " ",
                               text |-> TextOf(line)]]

\* ok is the value returned, false after OnHardFailure; messages is the
\* output parameter.
RECURSIVE DisassembleInto(_, _)
DisassembleInto(lines, messages) ==
    IF lines = <<>>
    THEN [ok |-> TRUE, messages |-> messages]
    ELSE LET one == DisassembleLine(Head(lines))
         IN IF one.ok
            THEN DisassembleInto(Tail(lines), Append(messages, one.message))
            ELSE [ok |-> FALSE, messages |-> messages]

DisassembleMessagesReceived(lines) == DisassembleInto(lines, <<>>)

\* ------------------------------------------------------------------ state
VARIABLES
    stage,          \* currentMessageContext.protocolStage
    conn,           \* serverConnection: "null", or the connection, "open" or "closed"
    address,        \* serverConnection->GetBoundAddress(); 0 without a connection
    active,         \* activeExtension
    supported,      \* supportedExtensionNames
    policy,         \* extensions: name -> the implementation registered, "unreg" if none
    performed,      \* the extensions whose performedExtraStage is set
    promises,       \* readyOrBrokenPromises: for each promise, whether it holds a value
    robFacts,       \* what was observed when the last step gave such promises a value
    configured,     \* the calls of Extension::Configure the last step made
    connected,      \* what the last step did in Impl::Connect, in order: the
                    \* extensions whose Reset it called, "Connect" for
                    \* transport->Connect, and the value it returned
    sendCompleted,  \* the sendCompleted promise: who made it, whether it holds
                    \* a value, and the value
    sendErr,        \* what the last step did wrong with sendCompleted: "twice"
                    \* (set_value on a promise that holds a value), "nosend"
                    \* (set_value on the promise the constructor made), "broken"
                    \* (a promise of SendMail destroyed without a value)
    headers,        \* headers of the e-mail being sent
    body,           \* processed body of the e-mail being sent
    recipients,     \* the queue of recipients not yet announced
    wire,           \* what was handed to serverConnection->SendMessage for the
                    \* mail in progress
    halt,           \* "no"; "crash" once the process has died
    raw,            \* the body handed to ProcessBody, before it is processed
    dataReceived,   \* the reassembly buffer
    linesReceived,  \* the lines AssembleLinesReceived returned last
    parsedMessages, \* what DisassembleMessagesReceived made of them: whether
                    \* it returned true, and the messages
    callback,       \* the transport's thread: "idle", or "handling" inside
                    \* OnMessageReceived, where it holds the mutex
    caller          \* the caller's thread: "idle", or inside Client::Disconnect,
                    \* "closing" after Close(true), "releasing" after
                    \* serverConnection = nullptr

vars ==
    <<stage, conn, address, active, supported, policy, performed, promises,
      robFacts, configured, connected, sendCompleted, sendErr, headers, body, recipients,
      wire, halt, raw, dataReceived, linesReceived, parsedMessages, callback,
      caller>>

\* The state as one record, as a handler finds it (nothing observed yet), and
\* the step that installs the record a handler leaves as the next state.
\* halt = "threw" marks a handler that an exception unwound; it ends the
\* handler and is not carried into the next state.  The transcript of a mail
\* is kept while the client is in the stages of the mail transaction.
Cur ==
    [stage |-> stage, conn |-> conn, address |-> address, active |-> active,
     supported |-> supported,
     policy |-> policy, performed |-> performed, promises |-> promises,
     robFacts |-> {}, configured |-> <<>>, connected |-> <<>>, sendCompleted |-> sendCompleted, sendErr |-> {},
     headers |-> headers, body |-> body, recipients |-> recipients,
     wire |-> wire, halt |-> halt]

NoHeaders == [from |-> "none", to |-> <<>>]

\* Nothing of the client is left once the process has died.
Dead ==
    [stage |-> "Greeting", conn |-> "null", address |-> 0, active |-> NoExt,
     supported |-> {},
     policy |-> [e \in ExtNames |-> "unreg"], performed |-> {}, promises |-> <<>>,
     robFacts |-> {}, configured |-> <<>>, connected |-> <<>>, sendCompleted |-> [by |-> "Impl", sat |-> FALSE, val |-> "none"],
     sendErr |-> {}, headers |-> NoHeaders, body |-> <<>>, recipients |-> <<>>,
     wire |-> <<>>, halt |-> "crash"]

\* Install(t) is the step of the client's state alone; Becomes(t) is the step
\* of a handler that runs from its beginning to its end with no other thread
\* in between.
Install(t) ==
    LET u == IF t.halt = "crash" THEN Dead ELSE t
    IN /\ stage' = u.stage
       /\ conn' = u.conn
       /\ address' = u.address
       /\ active' = u.active
       /\ supported' = u.supported
       /\ policy' = u.policy
       /\ performed' = u.performed
       /\ promises' = u.promises
       /\ robFacts' = u.robFacts
       /\ configured' = u.configured
       /\ connected' = u.connected
       /\ sendCompleted' = u.sendCompleted
       /\ sendErr' = u.sendErr
       /\ headers' = u.headers
       /\ body' = u.body
       /\ recipients' = u.recipients
       /\ wire' = (IF u.stage \in MailStages THEN u.wire ELSE <<>>)
       /\ halt' = (IF u.halt = "threw" THEN "no" ELSE u.halt)
       /\ raw' = raw
       /\ UNCHANGED <<dataReceived, linesReceived, parsedMessages>>

Becomes(t) == Install(t) /\ UNCHANGED <<callback, caller>>

\* Client::Impl as its constructor leaves it.
InitImpl ==
    /\ stage = "Greeting"
    /\ conn = "null"
    /\ address = 0
    /\ active = NoExt
    /\ supported = {}
    /\ policy = [e \in ExtNames |-> "unreg"]
    /\ performed = {}
    /\ promises = <<>>
    /\ robFacts = {}
    /\ configured = <<>>
    /\ connected = <<>>
    /\ sendCompleted = [by |-> "Impl", sat |-> FALSE, val |-> "none"]
    /\ sendErr = {}
    /\ headers = NoHeaders
    /\ body = <<>>
    /\ recipients = <<>>
    /\ wire = <<>>
    /\ halt = "no"
    /\ callback = "idle"
    /\ caller = "idle"

NoParsed == [ok |-> TRUE, messages |-> <<>>]

NoInput ==
    /\ raw = <<>>
    /\ dataReceived = <<>>
    /\ linesReceived = <<>>
    /\ parsedMessages = NoParsed

Init == InitImpl /\ NoInput

\* ----------------------------------------------------------- Impl methods
\* promise.set_value(value) on each promise SwapOutReadyOrBrokenPromises
\* returned.  Each is recorded with the value, the caller (how), whether the
\* client was in ReadyToSend with no active extension at that moment (ready)
\* and whether the promise held a value already (again).
SetPromises(s, value, how) ==
    [s EXCEPT
        !.robFacts = s.robFacts \cup
            {[st |-> value, how |-> how,
              ready |-> (s.stage = "ReadyToSend" /\ s.active = NoExt),
              again |-> s.promises[i]] : i \in DOMAIN s.promises},
        !.promises = <<>>]

CloseConnection(s) ==
    [s EXCEPT !.conn = IF s.conn = "null" THEN "null" ELSE "closed"]

\* OnHardFailure without the serverConnection->Close().
OnHardFailure_KeepsOpen(s) == SetPromises(s, "false", "OnHardFailure")

OnHardFailure(s) == CloseConnection(SetPromises(s, "false", "OnHardFailure"))

OnReady(s) == SetPromises(s, "true", "OnReady")

\* extension->IsExtraProtocolStageNeededHere(currentMessageContext)
IsExtraProtocolStageNeededHere(s, e) ==
    /\ e \notin s.performed
    /\ ClaimStage(s.policy[e]) = s.stage

SupportedInOrder(s) == SelectSeq(ExtOrder, LAMBDA e : e \in s.supported)

\* serverConnection->SendMessage(...): a call through a null pointer when
\* there is no connection.
SendMessageDirectly(s, k, a, mods) ==
    IF s.halt # "no" THEN s
    ELSE IF s.conn = "null" THEN [s EXCEPT !.halt = "crash"]
    ELSE [s EXCEPT !.wire = Append(s.wire, [k |-> k, a |-> a, mods |-> mods])]

\* activeExtension->GoAhead(onSendMessage, onStageComplete):
\* BarPreMessageExtension sends a line of its own through onSendMessage.
GoAhead(s) ==
    IF s.policy[s.active] = "BarPreMessage"
    THEN SendMessageDirectly(s, "EXT", <<>>, <<>>)
    ELSE s

\* TransitionProtocolStage calling OnReady whatever the active extension.
TransitionProtocolStage_ReadyAnyway(s, nextProtocolStage) ==
    LET s1 == [s EXCEPT !.active = NoExt, !.stage = nextProtocolStage]
        order == SupportedInOrder(s1)
        asking == {i \in DOMAIN order : IsExtraProtocolStageNeededHere(s1, order[i])}
        s2 == IF asking = {}
              THEN s1
              ELSE LET first == order[CHOOSE i \in asking : \A j \in asking : i <= j]
                   IN GoAhead([s1 EXCEPT !.active = first,
                                         !.performed = s1.performed \cup {first}])
    IN IF s2.halt # "no" THEN s2
       ELSE IF s2.stage = "ReadyToSend" THEN OnReady(s2) ELSE s2

TransitionProtocolStage(s, nextProtocolStage) ==
    LET s1 == [s EXCEPT !.active = NoExt, !.stage = nextProtocolStage]
        order == SupportedInOrder(s1)
        asking == {i \in DOMAIN order : IsExtraProtocolStageNeededHere(s1, order[i])}
        s2 == IF asking = {}
              THEN s1
              ELSE LET first == order[CHOOSE i \in asking : \A j \in asking : i <= j]
                   IN GoAhead([s1 EXCEPT !.active = first,
                                         !.performed = s1.performed \cup {first}])
    IN IF s2.halt # "no" THEN s2
       ELSE IF s2.stage = "ReadyToSend" /\ s2.active = NoExt THEN OnReady(s2) ELSE s2

OnMessageReady(s) == TransitionProtocolStage(s, "ReadyToSend")

\* sendCompleted.set_value(value): std::promise throws future_error when it
\* already holds a value.
SetSendCompleted(s, value) ==
    IF s.sendCompleted.sat
    THEN [s EXCEPT !.sendErr = s.sendErr \cup {"twice"}, !.halt = "threw"]
    ELSE [s EXCEPT
            !.sendCompleted = [s.sendCompleted EXCEPT !.sat = TRUE, !.val = value],
            !.sendErr = IF s.sendCompleted.by = "Impl"
                        THEN s.sendErr \cup {"nosend"}
                        ELSE s.sendErr]

OnSoftFailure(s) ==
    LET s1 == SetSendCompleted(s, "false")
    IN IF s1.halt # "no" THEN s1 ELSE OnMessageReady(s1)

\* OnExtensionStageComplete making no transition on success.
OnExtensionStageComplete_Stays(s, success) ==
    IF success THEN s ELSE OnSoftFailure(s)

OnExtensionStageComplete(s, success) ==
    IF success THEN TransitionProtocolStage(s, s.stage) ELSE OnSoftFailure(s)

\* SendMessageThroughExtensions handing the input to the transport as it is.
SendMessageThroughExtensions_Unmodified(s, k, a) ==
    SendMessageDirectly(s, k, a, <<>>)

\* Every supported extension's ModifyMessage is applied, in the order the
\* set is iterated; mods records which and in what order.
SendMessageThroughExtensions(s, k, a) ==
    SendMessageDirectly(s, k, a, SupportedInOrder(s))

AnnounceNextRecipient(s, ub) ==
    IF s.halt # "no" THEN s
    ELSE IF s.recipients = <<>>
    THEN IF ub = "crash"
         THEN [s EXCEPT !.halt = "crash"]
         ELSE SendMessageThroughExtensions(s, "RCPT", <<0>>)
    ELSE SendMessageThroughExtensions(
             [s EXCEPT !.recipients = Tail(s.recipients)],
             "RCPT", <<Head(s.recipients)>>)

\* The test for the CR LF before the final dot taking every body to end in one.
EndsInCRLF_Always(b) == TRUE

EndsInCRLF(b) ==
    /\ Len(b) >= 2
    /\ SubSeq(b, Len(b) - 1, Len(b)) = <<"CR", "LF">>

HeaderBlock(h) == <<h.from>>

\* The four octets the EHLO line prints, in the order it prints them.
Octets(a) ==
    <<(a \div 16777216) % 256, (a \div 65536) % 256, (a \div 256) % 256, a % 256>>

\* text.find(' '), counting from 1; 0 for npos.
FindSpace(text) ==
    IF \E i \in DOMAIN text : text[i] = Space
    THEN CHOOSE i \in DOMAIN text :
            text[i] = Space /\ \A j \in 1..(i - 1) : text[j] # Space
    ELSE 0

\* The name and the parameters read from text that breaks at the last space.
ParseOption_LastSpace(text) ==
    LET spaces == {i \in DOMAIN text : text[i] = Space}
        d == IF spaces = {}
             THEN Len(text) + 1
             ELSE CHOOSE i \in spaces : \A j \in spaces : j <= i
    IN [name |-> SubSeq(text, 1, d - 1), parameters |-> SubSeq(text, d + 1, Len(text))]

\* The name and the parameters the Options stage reads from the text of a reply.
ParseOption(text) ==
    LET found == FindSpace(text)
        delimiter == IF found = 0 THEN Len(text) + 1 ELSE found
        parametersStart == IF found = 0 THEN delimiter ELSE delimiter + 1
    IN [name |-> SubSeq(text, 1, delimiter - 1),
        parameters |-> SubSeq(text, parametersStart, Len(text))]

\* The key of the extensions map a name is, if any: the names registered are
\* single symbols.
ExtensionsEntry(s, name) ==
    IF Len(name) = 1 /\ name[1] \in ExtNames /\ s.policy[name[1]] # "unreg"
    THEN name[1]
    ELSE NoExt

\* The Options stage supporting whatever name is advertised.
OnOption_Unchecked(s, text) ==
    LET name == ParseOption(text).name
    IN IF Len(name) = 1 /\ name[1] \in ExtNames
       THEN [s EXCEPT !.supported = s.supported \cup {name[1]}]
       ELSE s

\* The Options stage on a 250 reply with this text.
OnOption(s, text) ==
    LET parsed == ParseOption(text)
        e == ExtensionsEntry(s, parsed.name)
    IN IF e # NoExt
       THEN [s EXCEPT
               !.supported = s.supported \cup {e},
               !.configured = Append(s.configured,
                                     [e |-> e, parameters |-> parsed.parameters])]
       ELSE s

\* The Options stage taking every 250 reply for the last one.
OnOptionsReply_AlwaysLast(s, m) == OnMessageReady(OnOption(s, m.text))

\* The Options stage on a 250 reply.
OnOptionsReply(s, m) ==
    LET s1 == OnOption(s, m.text)
    IN IF m.last THEN OnMessageReady(s1) ELSE s1

Go(s) == [s |-> s, stop |-> FALSE]

Stop(s) == [s |-> s, stop |-> TRUE]

\* The body of the loop over parsedMessages in OnMessageReceived, for one
\* parsed message: the state after it, and whether the handler returned.
\* outcome is what the active extension does with the message, ub what the
\* build does on undefined behaviour.  HandleByExtension is the branch taken
\* with an active extension, HandleByStage the switch on the stage.
HandleByExtension(s, outcome) ==
    CASE outcome = "handled" -> Go(s)
      [] outcome = "completeTrue" -> Go(OnExtensionStageComplete(s, TRUE))
      [] outcome = "completeFalse" -> Go(OnExtensionStageComplete(s, FALSE))
      [] OTHER -> Stop(OnHardFailure(s))

\* The greeting handled by moving on to HelloResponse.
AfterGreeting_HelloResponse == "HelloResponse"

\* The stage the greeting's 220 leads to.
AfterGreeting == "Options"

HandleByStage(s, m, ub) ==
         CASE s.stage = "Greeting" ->
                IF m.code = 220
                THEN Go(TransitionProtocolStage(
                            SendMessageDirectly(s, "EHLO", Octets(s.address), <<>>),
                            AfterGreeting))
                ELSE Stop(OnHardFailure(s))
           [] s.stage = "HelloResponse" ->
                IF m.code = 250
                THEN IF m.last
                     THEN Go(OnMessageReady(s))
                     ELSE Go(TransitionProtocolStage(s, "Options"))
                ELSE Stop(OnHardFailure(s))
           [] s.stage = "Options" ->
                IF m.code = 250
                THEN Go(OnOptionsReply(s, m))
                ELSE Stop(OnHardFailure(s))
           [] s.stage = "DeclaringSender" ->
                IF m.code = 250
                THEN LET s1 == TransitionProtocolStage(s, "DeclaringRecipients")
                         s2 == [s1 EXCEPT !.recipients = s1.recipients \o s1.headers.to]
                     IN Go(AnnounceNextRecipient(s2, ub))
                ELSE Stop(OnSoftFailure(s))
           [] s.stage = "DeclaringRecipients" ->
                IF m.code = 250
                THEN IF s.recipients = <<>>
                     THEN Go(TransitionProtocolStage(
                                 SendMessageThroughExtensions(s, "DATA", <<>>),
                                 "SendingData"))
                     ELSE Go(AnnounceNextRecipient(s, ub))
                ELSE Stop(OnSoftFailure(s))
           [] s.stage = "SendingData" ->
                IF m.code = 354
                THEN LET s1 == TransitionProtocolStage(s, "AwaitingSendResponse")
                         s2 == SendMessageDirectly(s1, "HEADERS", HeaderBlock(s1.headers), <<>>)
                         s3 == SendMessageDirectly(s2, "BODY", s2.body, <<>>)
                         s4 == IF EndsInCRLF(s3.body)
                               THEN s3
                               ELSE SendMessageDirectly(s3, "CRLF", <<>>, <<>>)
                     IN Go(SendMessageDirectly(s4, "DOT", <<>>, <<>>))
                ELSE Stop(OnSoftFailure(s))
           [] s.stage = "AwaitingSendResponse" ->
                LET s1 == SetSendCompleted(s, IF m.code = 250 THEN "true" ELSE "false")
                IN IF s1.halt # "no" THEN Stop(s1) ELSE Go(OnMessageReady(s1))
           [] OTHER -> Stop(OnHardFailure(s))

\* The loop body handing every message to the switch on the stage.
HandleParsedMessage_StageOnly(s, m, outcome, ub) == HandleByStage(s, m, ub)

HandleParsedMessage(s, m, outcome, ub) ==
    IF s.active # NoExt
    THEN HandleByExtension(s, outcome)
    ELSE HandleByStage(s, m, ub)

RECURSIVE HandleParsedMessages(_, _, _, _, _)
HandleParsedMessages(s, lines, outcomes, ub, i) ==
    IF i > Len(lines) \/ s.halt # "no"
    THEN s
    ELSE LET r == HandleParsedMessage(s, lines[i], outcomes[i], ub)
         IN IF r.stop THEN r.s ELSE HandleParsedMessages(r.s, lines, outcomes, ub, i + 1)

\* Impl::OnMessageReceived on a chunk that completes the given lines:
\* DisassembleMessagesReceived parses all of them before any is handled.
OnMessageReceived(s, lines, outcomes, ub) ==
    IF lines = <<>> THEN s
    ELSE IF \E i \in DOMAIN lines : ~lines[i].ok
    THEN OnHardFailure(s)
    ELSE HandleParsedMessages(s, lines, outcomes, ub, 1)

OnBroken(s) == OnHardFailure(s)

\* The keys of the extensions map, in the order std::map iterates them.
RegisteredInOrder(s) == SelectSeq(ExtOrder, LAMBDA e : s.policy[e] # "unreg")

\* Impl::Connect asking the transport before it resets the extensions.
Connect_ResetsLate(s, ok, bound) ==
    [s EXCEPT !.conn = IF ok THEN "open" ELSE "null",
              !.address = IF ok THEN bound ELSE 0,
              !.connected = <<"Connect">> \o RegisteredInOrder(s)
                                \o <<IF ok THEN "true" ELSE "false">>]

\* Impl::Connect; ok is whether the transport returned a connection.
\* bound is the address the connection is bound to.
Connect(s, ok, bound) ==
    [s EXCEPT !.conn = IF ok THEN "open" ELSE "null",
              !.address = IF ok THEN bound ELSE 0,
              !.connected = RegisteredInOrder(s) \o <<"Connect">>
                                \o <<IF ok THEN "true" ELSE "false">>]

\* Client::Disconnect.  reports is whether the transport answers Close(true)
\* by invoking the broken delegate.
Disconnect(s, reports) ==
    IF s.conn = "null"
    THEN [s EXCEPT !.halt = "crash"]
    ELSE [(IF reports THEN OnBroken(s) ELSE CloseConnection(s))
             EXCEPT !.conn = "null", !.address = 0, !.stage = "Greeting"]

\* impl_->sendCompleted = std::promise< bool >(): the promise it replaces is
\* destroyed, which breaks it if it holds no value.
NewSendCompleted(s) ==
    [s EXCEPT
        !.sendErr = IF s.sendCompleted.by = "SendMail" /\ ~s.sendCompleted.sat
                    THEN s.sendErr \cup {"broken"}
                    ELSE s.sendErr,
        !.sendCompleted = [by |-> "SendMail", sat |-> FALSE, val |-> "none"]]

\* SendMail looking at the stage only.
Accepts_AnyHeaders(s, h) == s.stage = "ReadyToSend"

\* The condition under which SendMail starts the transaction.
Accepts(s, h) == s.stage = "ReadyToSend" /\ h.from # "none"

SendMail(s, h, b) ==
    LET s1 == NewSendCompleted(s)
    IN IF Accepts(s1, h)
       THEN LET s2 == [s1 EXCEPT !.headers = h, !.body = ProcessBody(b)]
            IN TransitionProtocolStage(
                   SendMessageThroughExtensions(s2, "MAIL", <<h.from>>),
                   "DeclaringSender")
       ELSE SetSendCompleted(s1, "false")

GetReadyOrBrokenFuture(s) ==
    [s EXCEPT !.promises = Append(s.promises, FALSE)]

RegisterExtension(s, e, p) == [s EXCEPT !.policy[e] = p]

\* ---------------------------------------------------------------- actions
Mails == [from : Froms, to : {ToList(k) : k \in 0..MaxRecipients}]

\* The lines a callback can complete in state s: the text of a reply is read
\* only in Options, its continuation mark only in HelloResponse and Options.
LinesFor(s) ==
    {m \in Lines :
        (s.active # NoExt \/ s.stage \notin {"HelloResponse", "Options"})
            => (m.text = NoText /\ m.last)}

\* The inputs that can make a difference in state s: an extension handles a
\* message only while it is the active one, and recipients.front() is
\* evaluated on an empty queue only for a mail without To values.
OutcomeChoices(s) == IF s.active = NoExt THEN {"handled"} ELSE ExtOutcomes

UbChoices(s) ==
    IF s.stage = "DeclaringSender" /\ s.recipients \o s.headers.to = <<>>
    THEN UbOutcomes
    ELSE {"crash"}

DoRegisterExtension ==
    /\ halt = "no"
    /\ conn = "null"
    /\ \E r \in TestExtensions :
          /\ policy[r[1]] = "unreg"
          /\ Becomes(RegisterExtension(Cur, r[1], r[2]))

DoConnect ==
    /\ halt = "no"
    /\ \E ok \in BOOLEAN : Becomes(Connect(Cur, ok, Loopback))

DoDisconnect ==
    /\ halt = "no"
    /\ \E reports \in BOOLEAN : Becomes(Disconnect(Cur, reports))

DoSendMail ==
    /\ halt = "no"
    /\ \E h \in Mails, b \in MainBodies :
          /\ Len(recipients) + Len(h.to) <= MaxQueue
          /\ Becomes(SendMail(Cur, h, b))

DoGetReadyOrBrokenFuture ==
    /\ halt = "no"
    /\ Len(promises) < MaxHandles
    /\ Becomes(GetReadyOrBrokenFuture(Cur))

DoOnMessageReceived ==
    /\ halt = "no"
    /\ conn = "open"
    /\ \E m \in LinesFor(Cur), outcome \in OutcomeChoices(Cur), ub \in UbChoices(Cur) :
          Becomes(OnMessageReceived(Cur, <<m>>, <<outcome>>, ub))

DoOnBroken ==
    /\ halt = "no"
    /\ conn = "open"
    /\ Becomes(OnBroken(Cur))

DoExtStageComplete ==
    /\ halt = "no"
    /\ active # NoExt
    /\ \E success \in BOOLEAN : Becomes(OnExtensionStageComplete(Cur, success))

Next ==
    \/ DoRegisterExtension
    \/ DoConnect
    \/ DoDisconnect
    \/ DoSendMail
    \/ DoGetReadyOrBrokenFuture
    \/ DoOnMessageReceived
    \/ DoOnBroken
    \/ DoExtStageComplete

Spec == Init /\ [][Next]_vars

\* The EHLO exchange alone, over every text of a capability line.
Symbols == ExtNames \cup {"x", Space}

AllTexts == UNION {[1..n -> Symbols] : n \in 0..MaxText}

CapabilityLines == [ok : {TRUE}, code : {250}, last : BOOLEAN, text : AllTexts]

DoOnCapabilityLine ==
    /\ halt = "no"
    /\ conn = "open"
    /\ stage = "Options"
    /\ \E m \in CapabilityLines :
          Becomes(OnMessageReceived(Cur, <<m>>, <<"handled">>, "crash"))

DoOnGreeting ==
    /\ halt = "no"
    /\ conn = "open"
    /\ stage = "Greeting"
    /\ \E m \in LinesFor(Cur) :
          Becomes(OnMessageReceived(Cur, <<m>>, <<"handled">>, "crash"))

NextOptions ==
    \/ DoRegisterExtension
    \/ DoConnect
    \/ DoDisconnect
    \/ DoGetReadyOrBrokenFuture
    \/ DoOnGreeting
    \/ DoOnCapabilityLine

SpecOptions == Init /\ [][NextOptions]_vars

\* The EHLO exchange with any implementation registered under any name.
ExtKinds == {"Foo", "BarPreMessage", "BarAfterSenderDeclared"}

DoRegisterAny ==
    /\ halt = "no"
    /\ conn = "null"
    /\ \E e \in ExtNames, kind \in ExtKinds :
          /\ policy[e] = "unreg"
          /\ Becomes(RegisterExtension(Cur, e, kind))

\* A 250 line advertising extension e.
Advertise(e, last) == [ok |-> TRUE, code |-> 250, last |-> last, text |-> <<e>>]

DoOnAdvertisement ==
    /\ halt = "no"
    /\ conn = "open"
    /\ stage = "Options"
    /\ \E e \in ExtNames, last \in BOOLEAN :
          Becomes(OnMessageReceived(Cur, <<Advertise(e, last)>>, <<"handled">>, "crash"))

NextOrder ==
    \/ DoRegisterAny
    \/ DoConnect
    \/ DoDisconnect
    \/ DoGetReadyOrBrokenFuture
    \/ DoOnGreeting
    \/ DoOnAdvertisement

SpecOrder == Init /\ [][NextOrder]_vars

\* ProcessBody alone, on every body of at most MaxBody characters: a dot, a
\* carriage return, a line feed, or another character.
BodyChars == {".", "CR", "LF", "a"}

Bodies == UNION {[1..n -> BodyChars] : n \in 0..MaxBody}

InitBody ==
    /\ InitImpl
    /\ raw \in Bodies
    /\ dataReceived = <<>>
    /\ linesReceived = <<>>
    /\ parsedMessages = NoParsed

DoProcessBody ==
    /\ body' = ProcessBody(raw)
    /\ UNCHANGED <<stage, conn, address, active, supported, policy, performed,
                   promises, robFacts, configured, connected, sendCompleted,
                   sendErr, headers, recipients, wire, halt, raw, dataReceived,
                   linesReceived, parsedMessages, callback, caller>>

NextBody == DoProcessBody

SpecBody == InitBody /\ [][NextBody]_vars

\* One mail after another on a connection with no extension, with every body
\* of at most MaxBody characters.
DoSendBody ==
    /\ halt = "no"
    /\ stage = "ReadyToSend"
    /\ recipients = <<>>
    /\ \E b \in Bodies :
          Becomes(SendMail(Cur, [from |-> "f1", to |-> ToList(1)], b))

NextData ==
    \/ DoConnect
    \/ DoOnMessageReceived
    \/ DoSendBody

SpecData == Init /\ [][NextData]_vars

\* AssembleLinesReceived alone, on chunks of at most MaxChunk bytes: a
\* carriage return, a line feed, or another byte.
Bytes == {"CR", "LF", "x"}

Chunks == UNION {[1..n -> Bytes] : n \in 1..MaxChunk}

DoOnBytes ==
    /\ \E data \in Chunks :
          /\ Len(dataReceived) + Len(data) <= MaxBuffer
          /\ LET r == AssembleLinesReceived(dataReceived, data)
             IN /\ dataReceived' = r.buffer
                /\ linesReceived' = r.lines
    /\ UNCHANGED <<stage, conn, address, active, supported, policy, performed,
                   promises, robFacts, configured, connected, sendCompleted,
                   sendErr, headers, body, recipients, wire, halt, raw,
                   parsedMessages, callback, caller>>

NextLines == DoOnBytes

SpecLines == Init /\ [][NextLines]_vars

\* DisassembleMessagesReceived alone, on one line ending in CR LF.
ReplyChars == {"2", "5", "-", " ", "x"}

ReplyLines ==
    {content \o <<"CR", "LF">> :
        content \in UNION {[1..n -> ReplyChars] : n \in 0..MaxLine}}

InitReply ==
    /\ InitImpl
    /\ raw = <<>>
    /\ dataReceived = <<>>
    /\ \E line \in ReplyLines : linesReceived = <<line>>
    /\ parsedMessages = NoParsed

DoDisassemble ==
    /\ parsedMessages = NoParsed
    /\ parsedMessages' = DisassembleMessagesReceived(linesReceived)
    /\ UNCHANGED <<stage, conn, address, active, supported, policy, performed,
                   promises, robFacts, configured, connected, sendCompleted,
                   sendErr, headers, body, recipients, wire, halt, raw,
                   dataReceived, linesReceived, callback, caller>>

NextReply == DoDisassemble

SpecReply == InitReply /\ [][NextReply]_vars

\* The caller's thread and the transport's thread, step by step.  The
\* handlers that lock the mutex (OnMessageReceived, OnBroken, SendMail,
\* GetReadyOrBrokenFuture) exclude one another; Impl::Connect and
\* Client::Disconnect lock nothing, so that their steps fall anywhere.
MutexFree == callback = "idle"

ThDeliver ==
    /\ halt = "no"
    /\ MutexFree
    /\ conn = "open"
    /\ callback' = "handling"
    /\ Install(Cur)
    /\ UNCHANGED caller

ThHandle ==
    /\ halt = "no"
    /\ callback = "handling"
    /\ \E m \in LinesFor(Cur), outcome \in OutcomeChoices(Cur) :
          Install(OnMessageReceived(Cur, <<m>>, <<outcome>>, "crash"))
    /\ callback' = "idle"
    /\ UNCHANGED caller

ThOnBroken ==
    /\ MutexFree
    /\ DoOnBroken

ThGetReadyOrBrokenFuture ==
    /\ MutexFree
    /\ caller = "idle"
    /\ DoGetReadyOrBrokenFuture

ThRegisterExtension ==
    /\ caller = "idle"
    /\ DoRegisterExtension

ThConnect ==
    /\ caller = "idle"
    /\ DoConnect

\* serverConnection->Close(true)
ThDisconnectClose ==
    /\ halt = "no"
    /\ caller = "idle"
    /\ Install(IF conn = "null" THEN [Cur EXCEPT !.halt = "crash"] ELSE CloseConnection(Cur))
    /\ caller' = (IF conn = "null" THEN "idle" ELSE "closing")
    /\ UNCHANGED callback

\* serverConnection = nullptr
ThDisconnectRelease ==
    /\ halt = "no"
    /\ caller = "closing"
    /\ Install([Cur EXCEPT !.conn = "null", !.address = 0])
    /\ caller' = "releasing"
    /\ UNCHANGED callback

\* currentMessageContext = MessageContext()
ThDisconnectReset ==
    /\ halt = "no"
    /\ caller = "releasing"
    /\ Install([Cur EXCEPT !.stage = "Greeting"])
    /\ caller' = "idle"
    /\ UNCHANGED callback

NextThreads ==
    \/ ThRegisterExtension
    \/ ThConnect
    \/ ThGetReadyOrBrokenFuture
    \/ ThDeliver
    \/ ThHandle
    \/ ThOnBroken
    \/ ThDisconnectClose
    \/ ThDisconnectRelease
    \/ ThDisconnectReset

SpecThreads == Init /\ [][NextThreads]_vars

\* The transport delivers what it has to deliver: a reply the server sent,
\* or the breaking of the connection.  A delivery that is possible again and
\* again happens, also when the caller reconnects in between.
SpecLive ==
    /\ Init
    /\ [][Next]_vars
    /\ SF_vars(DoOnMessageReceived)
    /\ SF_vars(DoOnBroken)

\* ----------------------------------------------------------------- claims
\* A send is pending when SendMail made the promise and it holds no value.
SendPending == sendCompleted.by = "SendMail" /\ ~sendCompleted.sat

\* C1: every handle SendMail returned holds a value no later than the next
\* event that drains the ready-or-broken promises (a transition into
\* ReadyToSend, or the connection breaking).  As a property of states: a
\* send is not pending once the client is back in ReadyToSend, nor once a
\* hard failure has closed the connection.
C1_SendResolvedByNextDrain ==
    (halt = "no" /\ SendPending) => (stage # "ReadyToSend" /\ conn # "closed")

\* C2: the in-flight send promise is never given a value twice, and never
\* given a value when no send is in progress.
C2_SendCompletedSetOnce == sendErr \cap {"twice", "nosend"} = {}

\* The values the last step gave to ready-or-broken promises.
RobValues(t) == {f.st : f \in t.robFacts}

\* C3: a ready-or-broken promise is given a value at most once: true exactly
\* when the event is a transition into ReadyToSend with no active extension,
\* false exactly when it is a hard failure or the connection breaking.  One
\* event gives all outstanding promises the same value and leaves the
\* collection empty, so that no later event gives them a value again.
C3_ReadyOrBrokenOnce ==
    /\ \A f \in robFacts :
          /\ ~f.again
          /\ f.st = "true" => (f.how = "OnReady" /\ f.ready)
          /\ f.st = "false" => f.how = "OnHardFailure"
    /\ Cardinality(RobValues(Cur)) <= 1
    /\ robFacts # {} => promises = <<>>
    /\ \A i \in DOMAIN promises : ~promises[i]
    /\ (halt = "no" /\ promises # <<>>) =>
          /\ LET t == OnMessageReady(Cur)
             IN (t.halt = "no" /\ t.active = NoExt) =>
                    (t.promises = <<>> /\ RobValues(t) = {"true"})
          /\ LET t == OnBroken(Cur)
             IN t.promises = <<>> /\ RobValues(t) = {"false"}

C3_Witness ==
    /\ \E f \in robFacts : f.st = "true" /\ f.how = "OnReady"
    /\ stage = "ReadyToSend"
    /\ supported # {}

\* What makes a reply in state s a hard failure: malformed framing, an
\* active extension returning false, or an unexpected code in Greeting,
\* HelloResponse or Options.
IsHardFailure(s, m, outcome) ==
    \/ ~m.ok
    \/ s.active # NoExt /\ outcome = "reject"
    \/ s.active = NoExt /\ s.stage = "Greeting" /\ m.code # 220
    \/ s.active = NoExt /\ s.stage \in {"HelloResponse", "Options"} /\ m.code # 250

AfterHardFailure(s, t) ==
    /\ t.promises = <<>>
    /\ s.promises # <<>> => RobValues(t) = {"false"}
    /\ s.promises = <<>> => t.robFacts = {}
    /\ t.conn = "closed"

Misuse(s, h) == s.stage # "ReadyToSend" \/ h.from = "none"

\* C7: SendMail outside ReadyToSend, or with headers without From, returns a
\* future that already holds false, writes nothing, and leaves the stage,
\* the queue of recipients and the ready-or-broken promises as they were.
C7_MisuseRefused ==
    halt = "no" =>
        \A h \in Mails, b \in MainBodies :
            Misuse(Cur, h) =>
                LET t == SendMail(Cur, h, b)
                IN /\ t.sendCompleted = [by |-> "SendMail", sat |-> TRUE, val |-> "false"]
                   /\ t.wire = wire
                   /\ t.halt = "no"
                   /\ t.stage = stage
                   /\ t.recipients = recipients
                   /\ t.promises = promises
                   /\ t.robFacts = {}

C7_Witness ==
    /\ sendCompleted = [by |-> "SendMail", sat |-> TRUE, val |-> "false"]
    /\ "broken" \in sendErr
    /\ stage = "DeclaringRecipients"
    /\ recipients # <<>>
    /\ promises # <<>>

\* What a soft failure or a final reply leaves: the stage is ReadyToSend,
\* the outstanding ready-or-broken promises hold true unless an extension
\* claimed the stage, and the connection was not closed.
BackToReady(s, t) ==
    /\ t.halt = "no"
    /\ t.stage = "ReadyToSend"
    /\ t.active = NoExt =>
          /\ t.promises = <<>>
          /\ s.promises # <<>> => RobValues(t) = {"true"}
    /\ t.conn = s.conn

\* The send promise was given this value by the step, and properly.
SendResolved(t, value) ==
    /\ t.sendCompleted = [by |-> "SendMail", sat |-> TRUE, val |-> value]
    /\ t.sendErr = {}

\* C4: the future of SendMail gets true if and only if the reply received in
\* AwaitingSendResponse has code 250, and false on any other code there; on
\* either the stage becomes ReadyToSend, the outstanding ready-or-broken
\* promises get true (when no extension claims the stage) and the
\* connection is not closed.
C4_FinalReplyResolvesSend ==
    (/\ halt = "no" /\ conn = "open"
     /\ stage = "AwaitingSendResponse" /\ active = NoExt
     /\ headers.to # <<>>) =>
        \A m \in GoodLines :
            LET t == OnMessageReceived(Cur, <<m>>, <<"handled">>, "crash")
            IN /\ SendResolved(t, IF m.code = 250 THEN "true" ELSE "false")
               /\ BackToReady(Cur, t)

\* What makes a reply in state s a soft failure.
IsSoftFailure(s, m, outcome) ==
    /\ m.ok
    /\ \/ s.active # NoExt /\ s.stage \in MailStages /\ outcome = "completeFalse"
       \/ s.active = NoExt /\ s.stage \in {"DeclaringSender", "DeclaringRecipients"}
              /\ m.code # 250
       \/ s.active = NoExt /\ s.stage = "SendingData" /\ m.code # 354

\* C5: on a soft failure (a code other than 250 in DeclaringSender or
\* DeclaringRecipients, other than 354 in SendingData, or an extension
\* engaged during the mail transaction reporting failure) the send promise
\* gets false, the stage becomes ReadyToSend, the outstanding
\* ready-or-broken promises get true (when no extension claims the stage),
\* the connection is not closed and nothing more is written.
C5_SoftFailure ==
    (halt = "no" /\ conn = "open") =>
        \A m \in Lines, outcome \in ExtOutcomes :
            IsSoftFailure(Cur, m, outcome) =>
                LET t == OnMessageReceived(Cur, <<m>>, <<outcome>>, "crash")
                IN /\ SendResolved(t, "false")
                   /\ BackToReady(Cur, t)
                   /\ t.wire = wire

\* What SendMessage was handed, whatever the extensions changed in it.
Item(k, a) == [k |-> k, a |-> a]

SameCmds(w, e) ==
    /\ Len(w) = Len(e)
    /\ \A i \in DOMAIN w : w[i].k = e[i].k /\ w[i].a = e[i].a

\* The transcript of a mail with headers h and processed body b.
Transcript(h, b) ==
    <<Item("MAIL", <<h.from>>)>>
    \o [i \in DOMAIN h.to |-> Item("RCPT", <<h.to[i]>>)]
    \o <<Item("DATA", <<>>), Item("HEADERS", HeaderBlock(h)), Item("BODY", b)>>
    \o (IF EndsInCRLF(b) THEN <<>> ELSE <<Item("CRLF", <<>>)>>)
    \o <<Item("DOT", <<>>)>>

\* C8: for a mail with From f and To r1..rn, n >= 1, sent from ReadyToSend
\* and answered 250, ..., 250, 354, what is written is MAIL FROM:f, RCPT TO:r1
\* ... RCPT TO:rn, DATA, the headers, the processed body and the final dot,
\* in this order; each RCPT TO and DATA only after the 250 for the command
\* before it, the message data only after the 354.  As a property of
\* states: in each stage of the transaction what was written so far is the
\* part of that transcript the replies received so far allow.
C8_HappyPathOrder ==
    (halt = "no" /\ stage \in MailStages /\ headers.to # <<>>) =>
        LET e == Transcript(headers, body)
            n == Len(headers.to)
        IN CASE stage = "DeclaringSender" -> SameCmds(wire, SubSeq(e, 1, 1))
             [] stage = "DeclaringRecipients" ->
                  \E k \in 1..n : SameCmds(wire, SubSeq(e, 1, 1 + k))
             [] stage = "SendingData" -> SameCmds(wire, SubSeq(e, 1, n + 2))
             [] OTHER -> SameCmds(wire, e)

\* The recipients announced for the mail in progress.
Announced(w) ==
    LET r == SelectSeq(w, LAMBDA x : x.k = "RCPT")
    IN [i \in DOMAIN r |-> r[i].a[1]]

IsPrefix(p, q) ==
    /\ Len(p) <= Len(q)
    /\ \A i \in DOMAIN p : p[i] = q[i]

\* C9: the RCPT TO commands written for a mail that SendMail accepted are the
\* values of that mail's To header, one command per value, in the order of
\* the header, also when an earlier mail of the session was rejected in
\* DeclaringRecipients with recipients left to announce.  (Stated for mails
\* with at least one To value.)
C9_OwnRecipientsOnly ==
    (halt = "no" /\ stage \in MailStages /\ headers.to # <<>>) =>
        /\ IsPrefix(Announced(wire), headers.to)
        /\ stage \in {"SendingData", "AwaitingSendResponse"} =>
              Announced(wire) = headers.to

\* C10: for a mail with From and no To value, on the 250 in DeclaringSender
\* the client writes DATA, writes no RCPT TO, and moves to SendingData.
C10_NoRecipientsGoesToData ==
    (/\ halt = "no" /\ conn = "open"
     /\ stage = "DeclaringSender" /\ active = NoExt
     /\ headers.to = <<>>) =>
        \A m \in GoodLines, ub \in UbOutcomes :
            m.code = 250 =>
                LET t == OnMessageReceived(Cur, <<m>>, <<"handled">>, ub)
                IN /\ t.halt = "no"
                   /\ t.stage = "SendingData"
                   /\ Len(t.wire) = Len(wire) + 1
                   /\ t.wire[Len(t.wire)].k = "DATA"

\* C11: in Options a 250 continuation line gives no ready-or-broken promise a
\* value and leaves the stage Options; the final 250 line moves to
\* ReadyToSend and gives the outstanding promises true (unless an extension
\* claims the stage).
C11_OptionsUntilFinalLine ==
    (halt = "no" /\ conn = "open" /\ stage = "Options" /\ active = NoExt) =>
        \A m \in GoodLines :
            m.code = 250 =>
                LET t == OnMessageReceived(Cur, <<m>>, <<"handled">>, "crash")
                IN IF m.last
                   THEN /\ t.stage = "ReadyToSend"
                        /\ t.active = NoExt =>
                              /\ t.promises = <<>>
                              /\ promises # <<>> => RobValues(t) = {"true"}
                   ELSE /\ t.stage = "Options"
                        /\ t.promises = promises
                        /\ t.robFacts = {}

C11_Witness ==
    /\ stage = "Options"
    /\ conn = "open"
    /\ promises # <<>>
    /\ configured # <<>>

\* The step wrote one line more, EHLO with the octets of the bound address,
\* most significant first.
WroteEhlo(s, t) ==
    /\ Len(t.wire) = Len(s.wire) + 1
    /\ LET line == t.wire[Len(t.wire)]
       IN /\ line.k = "EHLO"
          /\ Len(line.a) = 4
          /\ \A i \in 1..4 : line.a[i] \in 0..255
          /\ line.a[1] * 16777216 + line.a[2] * 65536 + line.a[3] * 256 + line.a[4]
                = s.address

\* C12: a successful connect writes nothing; on a 220 reply in Greeting the
\* client writes exactly one line, EHLO [a.b.c.d] with the octets of the
\* bound address, most significant first, moves to Options and gives no
\* ready-or-broken promise a value.
C12_GreetingSendsEhlo ==
    halt = "no" =>
        /\ Connect(Cur, TRUE, Loopback).wire = wire
        /\ (conn = "open" /\ stage = "Greeting") =>
              \A m \in GoodLines, outcome \in ExtOutcomes :
                  m.code = 220 =>
                      LET t == OnMessageReceived(Cur, <<m>>, <<outcome>>, "crash")
                      IN /\ WroteEhlo(Cur, t)
                         /\ t.stage = "Options"
                         /\ t.promises = promises
                         /\ t.robFacts = {}

\* C13: after Disconnect in any state, a successful Connect starts afresh:
\* the first reply of the new connection is handled in Greeting by the
\* client itself, so that a 220 makes it write EHLO and move to Options.
C13_FreshAfterDisconnect ==
    (halt = "no" /\ conn # "null") =>
        \A reports \in BOOLEAN, m \in GoodLines, outcome \in ExtOutcomes :
            m.code = 220 =>
                LET c == Connect(Disconnect(Cur, reports), TRUE, Loopback)
                    t == OnMessageReceived(c, <<m>>, <<outcome>>, "crash")
                IN /\ c.stage = "Greeting"
                   /\ WroteEhlo(c, t)
                   /\ t.stage = "Options"

\* C14: Disconnect is idempotent: called without a connection (never
\* connected, or a second time in a row) it completes normally and leaves
\* what one call leaves, no connection and the stage Greeting.
C14_DisconnectIdempotent ==
    halt = "no" =>
        \A r1 \in BOOLEAN, r2 \in BOOLEAN :
            LET once == Disconnect(Cur, r1)
                twice == Disconnect(once, r2)
            IN /\ conn = "null" =>
                     (once.halt = "no" /\ once.conn = "null" /\ once.stage = "Greeting")
               /\ once.halt = "no" =>
                     (twice.halt = "no" /\ twice.conn = "null" /\ twice.stage = "Greeting")

\* C15: every ready-or-broken promise outstanding when Disconnect is called
\* gets false by that call, the transport reporting the closing through the
\* broken delegate; none is left without a value, none gets true.
C15_DisconnectResolvesFalse ==
    (halt = "no" /\ promises # <<>>) =>
        LET t == Disconnect(Cur, TRUE)
        IN /\ t.halt = "no"
           /\ t.promises = <<>>
           /\ RobValues(t) = {"false"}

\* C16: every ready-or-broken promise eventually gets a value, the transport
\* delivering every reply and every breaking of the connection, whenever
\* the promise was asked for.  (Stated for the promises asked for after the
\* connection was closed by a hard failure.)
C16_ReadyOrBrokenEventually ==
    (promises # <<>> /\ conn = "closed") ~> (promises = <<>>)

\* C17: the set of supported extensions holds the names registered and
\* advertised on the current connection only: a new connection starts with
\* the set empty.
C17_SupportedPerConnection ==
    halt = "no" => Connect(Cur, TRUE, Loopback).supported = {}

\* C18: every name in the set of supported extensions is a key of the map of
\* registered extensions.
C18_SupportedAreRegistered ==
    \A e \in supported : e \in ExtNames /\ policy[e] # "unreg"

C18_Witness ==
    /\ supported = ExtNames
    /\ stage = "AwaitingSendResponse"

\* The text is the name, or the name, a space and the parameters, the name
\* holding no space.
IsSplit(text, name, parameters) ==
    \/ /\ \A i \in DOMAIN text : text[i] # Space
       /\ name = text
       /\ parameters = <<>>
    \/ /\ \A i \in DOMAIN name : name[i] # Space
       /\ text = name \o <<Space>> \o parameters

C20_ModifyInAdvertisedOrder ==
    (/\ halt = "no" /\ conn = "open"
     /\ stage = "Options" /\ active = NoExt
     /\ supported = {}) =>
        \A e1 \in ExtNames, e2 \in ExtNames :
            (e1 # e2 /\ policy[e1] # "unreg" /\ policy[e2] # "unreg") =>
                LET s1 == OnMessageReceived(Cur, <<Advertise(e1, FALSE)>>, <<"handled">>, "crash")
                    s2 == OnMessageReceived(s1, <<Advertise(e2, FALSE)>>, <<"handled">>, "crash")
                    t == SendMessageThroughExtensions(s2, "MAIL", <<"f1">>)
                IN t.wire[Len(t.wire)].mods = <<e1, e2>>

\* C21: on a stage transition the supported extensions are asked
\* IsExtraProtocolStageNeededHere in the order the server advertised them;
\* the first in that order that answers true becomes the active extension,
\* it alone is handed GoAhead, and the extensions after it are not asked.
\* (Stated for two extensions that both want a stage before the first mail,
\* on the transition into ReadyToSend that the final 250 line makes.)
C21_AskedInAdvertisedOrder ==
    (/\ halt = "no" /\ conn = "open"
     /\ stage = "Options" /\ active = NoExt
     /\ supported = {}) =>
        \A e1 \in ExtNames, e2 \in ExtNames :
            (/\ e1 # e2
             /\ policy[e1] = "BarPreMessage" /\ policy[e2] = "BarPreMessage"
             /\ performed = {}) =>
                LET s1 == OnMessageReceived(Cur, <<Advertise(e1, FALSE)>>, <<"handled">>, "crash")
                    t == OnMessageReceived(s1, <<Advertise(e2, TRUE)>>, <<"handled">>, "crash")
                IN /\ t.stage = "ReadyToSend"
                   /\ t.active = e1
                   /\ t.performed = {e1}
                   /\ Len(t.wire) = Len(wire) + 1

\* The command lines of the mail transaction.
CommandKinds == {"MAIL", "RCPT", "DATA"}

\* Each extension of sup occurs once in mods, and nothing else does.
EachOnce(mods, sup) ==
    /\ Len(mods) = Cardinality(sup)
    /\ {mods[i] : i \in DOMAIN mods} = sup

ModifiedOnlyCommands(w, sup) ==
    \A i \in DOMAIN w :
        IF w[i].k \in CommandKinds
        THEN EachOnce(w[i].mods, sup)
        ELSE w[i].mods = <<>>

\* C22: every MAIL FROM, RCPT TO and DATA line is passed through
\* ModifyMessage of every supported extension exactly once before it is
\* written; the headers, the processed body, the closing dot (with the CRLF
\* before it) and what an extension writes in GoAhead are written as they
\* are, through no ModifyMessage.
C22_OnlyCommandsModified ==
    halt = "no" =>
        /\ ModifiedOnlyCommands(wire, supported)
        /\ (conn = "open" /\ active = NoExt /\ stage \notin MailStages) =>
              \A m \in LinesFor(Cur) :
                  LET t == OnMessageReceived(Cur, <<m>>, <<"handled">>, "crash")
                  IN ModifiedOnlyCommands(t.wire, t.supported)

C22_Witness ==
    /\ stage = "AwaitingSendResponse"
    /\ supported = ExtNames
    /\ \E i \in DOMAIN wire : wire[i].k = "RCPT" /\ Len(wire[i].mods) = 2
    /\ \E i \in DOMAIN wire : wire[i].k = "BODY" /\ wire[i].a # <<>>

\* No supported extension asks for an extra stage in the stage of s.
NoneClaims(s) == \A e \in s.supported : ~IsExtraProtocolStageNeededHere(s, e)

\* The ready-or-broken promises of s hold true in t, and SendMail with a From
\* header then writes MAIL FROM and moves to DeclaringSender.
ReadyForMail(s, t) ==
    /\ t.halt = "no"
    /\ t.stage = "ReadyToSend"
    /\ t.active = NoExt
    /\ t.promises = <<>>
    /\ s.promises # <<>> => RobValues(t) = {"true"}
    /\ \A h \in Mails, b \in MainBodies :
          h.from # "none" =>
              LET u == SendMail(t, h, b)
              IN /\ u.halt = "no"
                 /\ u.stage = "DeclaringSender"
                 /\ Len(u.wire) = Len(t.wire) + 1
                 /\ u.wire[Len(u.wire)].k = "MAIL"
                 /\ u.wire[Len(u.wire)].a = <<h.from>>

\* C23: when a supported extension claims an extra stage on entry to
\* ReadyToSend, the outstanding ready-or-broken promises get no value by that
\* entry, nor by a reply the extension handles while it is active (a hard
\* failure apart); they get true when the extension reports its stage
\* complete with success and no extension then claims the stage, and
\* SendMail then starts a transaction: MAIL FROM is written.
C23_ExtensionDefersReady ==
    (halt = "no" /\ conn = "open") =>
        /\ \A m \in LinesFor(Cur), outcome \in OutcomeChoices(Cur) :
              LET t == OnMessageReceived(Cur, <<m>>, <<outcome>>, "crash")
              IN (/\ t.halt = "no"
                  /\ t.stage = "ReadyToSend" /\ t.active # NoExt
                  /\ ~IsHardFailure(Cur, m, outcome)) =>
                     (t.promises = promises /\ t.robFacts = {})
        /\ (stage = "ReadyToSend" /\ active # NoExt /\ NoneClaims(Cur)) =>
              /\ ReadyForMail(Cur, OnExtensionStageComplete(Cur, TRUE))
              /\ \A m \in LinesFor(Cur) :
                    ReadyForMail(Cur, OnMessageReceived(Cur, <<m>>, <<"completeTrue">>, "crash"))

C23_Witness ==
    /\ stage = "ReadyToSend"
    /\ active = NoExt
    /\ "BAR" \in performed
    /\ policy["BAR"] = "BarPreMessage"
    /\ \E f \in robFacts : f.st = "true" /\ f.how = "OnReady"

\* C24: while an extension is active every parsed reply goes to its
\* HandleServerMessage and to nothing else.  Whatever the reply says, a reply
\* the extension handles changes nothing; the stage changes and commands are
\* written only by the extension reporting its stage complete; an extension
\* that returns false makes a hard failure, which changes no stage and
\* writes nothing.
C24_ActiveExtensionGetsReplies ==
    (halt = "no" /\ conn = "open" /\ active # NoExt) =>
        \A m \in GoodLines, ub \in UbOutcomes :
            /\ OnMessageReceived(Cur, <<m>>, <<"handled">>, ub) = Cur
            /\ OnMessageReceived(Cur, <<m>>, <<"completeTrue">>, ub)
                    = OnExtensionStageComplete(Cur, TRUE)
            /\ OnMessageReceived(Cur, <<m>>, <<"completeFalse">>, ub)
                    = OnExtensionStageComplete(Cur, FALSE)
            /\ LET t == OnMessageReceived(Cur, <<m>>, <<"reject">>, ub)
               IN t.stage = stage /\ t.wire = wire /\ t.active = active

C24_Witness ==
    /\ halt = "no"
    /\ conn = "open"
    /\ active = "BAR"
    /\ stage = "DeclaringSender"
    /\ \E i \in DOMAIN wire : wire[i].k = "MAIL"

\* Reset was called on each registered extension of s, once, and only then
\* was the transport asked; value is what Impl::Connect returned.
ResetThenConnect(s, log, value) ==
    LET n == Cardinality({e \in ExtNames : s.policy[e] # "unreg"})
    IN /\ Len(log) = n + 2
       /\ {log[i] : i \in 1..n} = {e \in ExtNames : s.policy[e] # "unreg"}
       /\ log[n + 1] = "Connect"
       /\ log[n + 2] = value

C26_CallbacksSerialized ==
    callback = "handling" => (caller = "idle" /\ conn = "open")

\* C27: once Disconnect was called or the transport reported the connection
\* broken, the client has let go of that connection and does not use it
\* again: nothing later writes to it.  (Stated for SendMail after the
\* connection broke.)
C27_BrokenConnectionNotUsed ==
    (halt = "no" /\ conn = "open") =>
        \A h \in Mails, b \in MainBodies :
            SendMail(OnBroken(Cur), h, b).wire = wire

\* The lines of x, without their endings.  With crOrLf a line ends at a CR LF
\* pair, at a lone CR or at a lone LF; without it, at a CR LF pair only.
\* Characters after the last ending make a last line.
RECURSIVE LinesFrom(_, _, _, _, _)
LinesFrom(x, crOrLf, i, line, done) ==
    IF i > Len(x)
    THEN IF line = <<>> THEN done ELSE Append(done, line)
    ELSE IF x[i] = "CR" /\ i < Len(x) /\ x[i + 1] = "LF"
    THEN LinesFrom(x, crOrLf, i + 2, <<>>, Append(done, line))
    ELSE IF crOrLf /\ x[i] \in {"CR", "LF"}
    THEN LinesFrom(x, crOrLf, i + 1, <<>>, Append(done, line))
    ELSE LinesFrom(x, crOrLf, i + 1, Append(line, x[i]), done)

\* The lines of a body, whatever its line endings.
BodyLines(b) == LinesFrom(b, TRUE, 1, <<>>, <<>>)

\* The lines of what is transmitted, as the server splits it.
SentLines(x) == LinesFrom(x, FALSE, 1, <<>>, <<>>)

\* What the server makes of a line it receives (RFC 5321, 4.5.2).
Unstuff(line) == IF line # <<>> /\ line[1] = "." THEN Tail(line) ELSE line

\* The line as it is to be transmitted.
Stuff(line) == IF line # <<>> /\ line[1] = "." THEN <<".">> \o line ELSE line

\* C28: splitting ProcessBody(b) into its lines and removing one leading dot
\* from every line that begins with a dot gives the lines of b, the line
\* endings of b being LF, a lone CR or CR LF; a line of b that begins with a
\* dot is sent with one more dot before it, every other line as it is.
C28_DotStuffingRoundTrip ==
    LET sent == SentLines(ProcessBody(raw))
        lines == BodyLines(raw)
    IN /\ [i \in DOMAIN sent |-> Unstuff(sent[i])] = lines
       /\ sent = [i \in DOMAIN lines |-> Stuff(lines[i])]

\* The characters of a line other than dots.
Undotted(line) == SelectSeq(line, LAMBDA c : c # ".")

\* C29: each line ending of the body, LF, a lone CR or CR LF, is one CR LF
\* of ProcessBody's result, between the same two lines; the result holds
\* no CR without an LF after it and no LF without a CR before it.
C29_LineEndingsNormalized ==
    LET out == ProcessBody(raw)
        sent == SentLines(out)
        lines == BodyLines(raw)
    IN /\ Len(sent) = Len(lines)
       /\ \A i \in DOMAIN sent :
             i \in DOMAIN lines /\ Undotted(sent[i]) = Undotted(lines[i])
       /\ \A i \in DOMAIN out :
             /\ out[i] = "CR" => (i < Len(out) /\ out[i + 1] = "LF")
             /\ out[i] = "LF" => (i > 1 /\ out[i - 1] = "CR")

\* C30 as the specification states it: ProcessBody(ProcessBody(b)) = ProcessBody(b).
C30_Idempotent == ProcessBody(ProcessBody(raw)) = ProcessBody(raw)

\* Lines put together again, each with CR LF after it.
RECURSIVE Joined(_)
Joined(lines) ==
    IF lines = <<>> THEN <<>>
    ELSE Head(lines) \o <<"CR", "LF">> \o Joined(Tail(lines))

\* C30, amended: applied to its own result, ProcessBody changes nothing but
\* the lines that begin with a dot, each of which gets one more dot; a
\* result with no such line is left as it is.
C30_IdempotentButForDots ==
    LET once == ProcessBody(raw)
        twice == ProcessBody(once)
        lines == SentLines(once)
    IN /\ twice = Joined([i \in DOMAIN lines |-> Stuff(lines[i])])
       /\ (\A i \in DOMAIN lines : Stuff(lines[i]) = lines[i]) => twice = once

C30_Witness ==
    /\ body = ProcessBody(raw)
    /\ body = <<"a", "CR", "LF", ".", ".", "CR", "LF">>

\* The characters an item of the message data puts on the connection.
DataBytes(item) ==
    CASE item.k = "BODY" -> item.a
      [] item.k = "CRLF" -> <<"CR", "LF">>
      [] item.k = "DOT" -> <<".", "CR", "LF">>
      [] OTHER -> <<>>

RECURSIVE AllDataBytes(_)
AllDataBytes(w) == IF w = <<>> THEN <<>> ELSE DataBytes(Head(w)) \o AllDataBytes(Tail(w))

\* C31: on 354 in SendingData the client writes the headers, the processed
\* body, a CR LF exactly when the processed body does not end in one, and
\* the dot line, in this order; whatever the body, what precedes the dot
\* line is CR LF, one dot line is written, and the stage becomes
\* AwaitingSendResponse.
C31_DataThenDot ==
    (/\ halt = "no" /\ conn = "open"
     /\ stage = "SendingData" /\ active = NoExt) =>
        \A m \in GoodLines :
            m.code = 354 =>
                LET t == OnMessageReceived(Cur, <<m>>, <<"handled">>, "crash")
                    new == SubSeq(t.wire, Len(wire) + 1, Len(t.wire))
                    n == Len(body)
                    ends == n >= 2 /\ body[n - 1] = "CR" /\ body[n] = "LF"
                    after == AllDataBytes(Tail(new))
                    k == Len(after)
                IN /\ t.stage = "AwaitingSendResponse"
                   /\ [i \in DOMAIN new |-> new[i].k]
                        = (IF ends THEN <<"HEADERS", "BODY", "DOT">>
                                   ELSE <<"HEADERS", "BODY", "CRLF", "DOT">>)
                   /\ new[1].a = HeaderBlock(headers)
                   /\ new[2].a = body
                   /\ k >= 5
                   /\ SubSeq(after, k - 4, k) = <<"CR", "LF", ".", "CR", "LF">>

C31_Witness ==
    /\ stage = "AwaitingSendResponse"
    /\ raw = <<>>
    /\ \E i \in DOMAIN wire : wire[i].k = "BODY" /\ wire[i].a = <<"a", "CR", "LF", "a", "CR", "LF">>
    /\ \A i \in DOMAIN wire : wire[i].k # "CRLF"
    /\ wire[Len(wire)].k = "DOT"

\* C32: with no extension registered the client writes a command only after
\* the final line of the reply to the command before it: a line of a reply
\* that is not its final line (code followed by '-') makes it write nothing.
\* (Stated for mails with at least one To value.)
C32_OneCommandAtATime ==
    (/\ halt = "no" /\ conn = "open"
     /\ \A e \in ExtNames : policy[e] = "unreg"
     /\ stage \in MailStages => headers.to # <<>>) =>
        \A m \in GoodLines :
            ~m.last =>
                OnMessageReceived(Cur, <<m>>, <<"handled">>, "crash").wire = wire

\* C33: every complete line the transport delivers is handed, in the order
\* of arrival, to the stage machine or to the active extension, or makes a
\* hard failure; none is dropped, also not a line that follows a soft
\* failure in the same chunk, nor a well-formed line before a malformed one
\* in the same chunk.  So two lines in one chunk do what the same lines do
\* one chunk after the other, as long as the first leaves the connection
\* open.
C33_NoLineDropped ==
    (/\ halt = "no" /\ conn = "open"
     /\ stage \in MailStages => headers.to # <<>>) =>
        \A m1 \in Lines, m2 \in Lines, o1 \in ExtOutcomes, o2 \in ExtOutcomes :
            LET first == OnMessageReceived(Cur, <<m1>>, <<o1>>, "crash")
            IN (first.halt = "no" /\ first.conn = "open") =>
                   OnMessageReceived(Cur, <<m1, m2>>, <<o1, o2>>, "crash")
                       = OnMessageReceived(first, <<m2>>, <<o2>>, "crash")

\* The pieces put end to end.
RECURSIVE Flat(_)
Flat(pieces) == IF pieces = <<>> THEN <<>> ELSE Head(pieces) \o Flat(Tail(pieces))

HasCRLF(x) == \E i \in 1..(Len(x) - 1) : x[i] = "CR" /\ x[i + 1] = "LF"

\* line ends in CR LF and holds no other CR LF.
IsOneLine(line) ==
    /\ Len(line) >= 2
    /\ line[Len(line) - 1] = "CR" /\ line[Len(line)] = "LF"
    /\ ~HasCRLF(SubSeq(line, 1, Len(line) - 1))

\* C34: after every callback the reassembly buffer holds no CR with an LF
\* right after it: everything up to a CR LF was returned as lines, each with
\* its CR LF, in the order of the stream, however the stream was cut into
\* chunks, also when a CR without an LF comes before the CR LF.
C34_LinesReassembled ==
    /\ ~HasCRLF(dataReceived)
    /\ \A data \in Chunks :
          LET r == AssembleLinesReceived(dataReceived, data)
          IN /\ ~HasCRLF(r.buffer)
             /\ Flat(r.lines) \o r.buffer = dataReceived \o data
             /\ \A i \in DOMAIN r.lines : IsOneLine(r.lines[i])

\* line has at least four characters, three decimal digits first and then a
\* hyphen or a space.
IsReply(line) ==
    /\ Len(line) >= 4
    /\ \A i \in 1..3 : IsDigit(line[i])
    /\ line[4] \in {"-", " "}

\* C35: a line ending in CR LF is taken as a reply exactly when it has at
\* least four characters, its first three are decimal digits and its fourth
\* is a hyphen or a space; the code is then the value of the three digits,
\* last says that the fourth character is a space, and the text is what
\* lies between the fourth character and the CR LF. Any other line is a hard
\* failure.
C35_ReplyParsed ==
    parsedMessages # NoParsed =>
        LET line == linesReceived[1]
        IN /\ parsedMessages.ok <=> IsReply(line)
           /\ parsedMessages.ok =>
                 /\ Len(parsedMessages.messages) = 1
                 /\ parsedMessages.messages[1] =
                        [code |-> 100 * DigitValue(line[1]) + 10 * DigitValue(line[2])
                                      + DigitValue(line[3]),
                         last |-> line[4] = " ",
                         text |-> SubSeq(line, 5, Len(line) - 2)]

\* C36: an extension is active only from its GoAhead to its report that the
\* stage is complete, within one connection.  Without an open connection no
\* extension is active; a new connection starts with none active; and after
\* the report, success or not, none is active when no supported extension
\* claims the stage then entered.
C36_ActiveOnlyInSubStage ==
    halt = "no" =>
        /\ conn # "open" => active = NoExt
        /\ conn # "open" =>
              \A ok \in BOOLEAN : Connect(Cur, ok, Loopback).active = NoExt
        /\ (conn = "open" /\ active # NoExt) =>
              \A success \in BOOLEAN :
                  LET t == OnExtensionStageComplete(Cur, success)
                  IN (t.halt = "no" /\ NoneClaims(t)) => t.active = NoExt

\* C37: the stage is HelloResponse in no reachable state: a 220 handled in
\* Greeting leads straight to Options, and nothing else enters
\* HelloResponse.
C37_NeverHelloResponse ==
    /\ stage # "HelloResponse"
    /\ (halt = "no" /\ conn = "open" /\ stage = "Greeting" /\ active = NoExt) =>
          \A m \in GoodLines :
              m.code = 220 =>
                  OnMessageReceived(Cur, <<m>>, <<"handled">>, "crash").stage = "Options"

C37_Witness ==
    /\ halt = "no"
    /\ conn = "open"
    /\ stage = "Options"
    /\ active = NoExt
    /\ supported # {}

\* C38: SendMail called while an extension is active in its extra stage at
\* ReadyToSend starts no transaction: nothing is written, the extension
\* stays active and the future returned holds false.
C38_NoMailDuringSubStage ==
    (halt = "no" /\ conn = "open" /\ stage = "ReadyToSend" /\ active # NoExt) =>
        \A h \in Mails, b \in MainBodies :
            LET t == SendMail(Cur, h, b)
            IN /\ t.halt = "no"
               /\ t.wire = wire
               /\ t.active = active
               /\ t.stage = "ReadyToSend"
               /\ t.sendCompleted = [by |-> "SendMail", sat |-> TRUE, val |-> "false"]

\* C39: after a connection ended by a hard failure or by the transport
\* reporting it broken, in whatever stage, a Connect without a Disconnect
\* before it starts the new connection in Greeting: its first reply is
\* taken as the greeting, a 220 makes the client write EHLO, any other code
\* is a hard failure.
C39_ReconnectStartsInGreeting ==
    (halt = "no" /\ conn = "closed") =>
        LET c == Connect(Cur, TRUE, Loopback)
        IN /\ c.stage = "Greeting"
           /\ \A m \in GoodLines, outcome \in ExtOutcomes :
                 LET t == OnMessageReceived(c, <<m>>, <<outcome>>, "crash")
                 IN IF m.code = 220
                    THEN WroteEhlo(c, t) /\ t.stage = "Options"
                    ELSE t.conn = "closed" /\ t.wire = c.wire

\* Where x has a line that is a single dot: a dot at the start of x or right
\* after a CR LF, with a CR LF right after it.
LoneDotAt(x) ==
    {i \in 1..(Len(x) - 2) :
        /\ x[i] = "." /\ x[i + 1] = "CR" /\ x[i + 2] = "LF"
        /\ i = 1 \/ (i >= 3 /\ x[i - 2] = "CR" /\ x[i - 1] = "LF")}

\* What follows the headers in w.
AfterHeaders(w) ==
    LET at == CHOOSE i \in DOMAIN w : w[i].k = "HEADERS"
    IN AllDataBytes(SubSeq(w, at + 1, Len(w)))

\* C40: whatever the body handed to SendMail, the processed body has no
\* line that is a single dot, neither as its first line nor after a CR LF:
\* in what is written after the headers the only such line is the last, the
\* terminator written on 354.
C40_NoLoneDotInBody ==
    /\ stage \in MailStages => LoneDotAt(body) = {}
    /\ (stage = "AwaitingSendResponse" /\ \E i \in DOMAIN wire : wire[i].k = "HEADERS") =>
          LET data == AfterHeaders(wire)
          IN LoneDotAt(data) = {Len(data) - 2}

C40_Witness ==
    /\ stage = "AwaitingSendResponse"
    /\ \E i \in DOMAIN wire : wire[i].k = "BODY" /\ wire[i].a = <<".", ".", "CR", "LF">>
    /\ wire[Len(wire)].k = "DOT"

====
